---------------------------- MODULE Spec2Model ----------------------------
(***************************************************************************)
(* TreadmillController (src/src/treadmill/controller.py): the command      *)
(* methods, the workout coroutine start_workout, and the telemetry         *)
(* notification handler, as one state machine.                             *)
(*                                                                         *)
(* Speeds are Decimal values in the source; here a speed is an integer     *)
(* number of thousandths of a metre per second (2999 is Decimal("2.999")), *)
(* so that a speed with more than two decimal places can be written.       *)
(* Byte strings are sequences of integers 0..255.  One step of the model   *)
(* is one run of a coroutine between two awaits of the asyncio event loop. *)
(***************************************************************************)
EXTENDS Integers, Sequences, FiniteSets, TLC

VARIABLES
    stop_event,       \* self.stop_event, the cancellation flag (asyncio.Event)
    intervals,        \* the argument of the running start_workout call
    wpc,              \* where the start_workout coroutine is suspended
    idx,              \* index (1-based) of the loop's current interval
    sleepLeft,        \* seconds left of the asyncio.sleep the workout is in
    wlog,             \* history: what the workout did (writes and sleeps)
    failedAt,         \* history: place in wlog of the workout's first failed
                      \* write; 0: none has failed
    cancelled,        \* history: a caller's stop()/_pause() ran during the workout
    stopInSleep,      \* history: a caller's stop()/_pause() ran during the
                      \* workout's current (or, once it has woken, last) sleep
    calls,            \* number of command calls made by other callers
    last,             \* the last command call made by another caller
    subscribed,       \* start_notify has registered _notification_handler
    delivered,        \* history: frames the Notification Source has delivered
    telemetry_queue,  \* self.telemetry_queue (asyncio.Queue, unbounded)
    consumed,         \* history: samples a consumer has taken from the queue
    poll              \* the controller of src/treadmill/controller.py (the
                      \* variant whose subscribe() polls), as one record

vars == <<stop_event, intervals, wpc, idx, sleepLeft, wlog, failedAt, cancelled,
          stopInSleep, calls, last, subscribed, delivered, telemetry_queue,
          consumed, poll>>

workoutVars == <<intervals, wpc, idx, sleepLeft, wlog, failedAt>>
historyVars == <<cancelled, stopInSleep>>
callerVars == <<calls, last>>
telemetryVars == <<subscribed, delivered, telemetry_queue, consumed>>

---------------------------------------------------------------------------
(* Op codes and literals. *)

SPEED_OP_CODE == 2
START_OP_CODE == 7
STOP_PAUSE_OP_CODE == 8
STOP_HEX == 1
PAUSE_HEX == 2

\* asyncio.sleep(5) in start_workout
WarmUp == 5

(* Bounds of the model. *)

\* largest speed, in thousandths of a m/s, of the dense range of speeds
\* that set_speed is applied to on its own
MaxCodecSpeed == 120
\* longest workout plan
MaxIntervals == 2
\* longest interval duration, in seconds
MaxDuration == 1
\* command calls made by other callers while the model runs
MaxCalls == 2
\* notification frames delivered
MaxFrames == 2

---------------------------------------------------------------------------
(* Decimal arithmetic of set_speed. *)

\* speed_meters_per_sec * 100, as a pair <<whole part, tenths left over>>:
\* the product is exact in Decimal; milli is the speed in thousandths.
\* int() of a Decimal truncates toward zero.
IntOfScaled(milli) ==
    IF milli >= 0 THEN milli \div 10 ELSE -((-milli) \div 10)

\* int.to_bytes(2, byteorder="little") raises OverflowError outside 0..65535
FitsU16(n) == n >= 0 /\ n <= 65535

\* (mutant) the two bytes in big-endian order
ToBytesLE2_BigEndian(n) == <<n \div 256, n % 256>>

ToBytesLE2(n) == <<n % 256, n \div 256>>

StartCommand == <<START_OP_CODE>>
PauseCommand == <<STOP_PAUSE_OP_CODE, PAUSE_HEX>>
\* (mutant) stop's command with pause's second byte
StopCommand_PauseHex == <<STOP_PAUSE_OP_CODE, PAUSE_HEX>>
StopCommand == <<STOP_PAUSE_OP_CODE, STOP_HEX>>

\* the command set_speed builds, when to_bytes does not raise
TargetSpeed(milli) == IntOfScaled(milli)
SpeedCommand(milli) == <<SPEED_OP_CODE>> \o ToBytesLE2(TargetSpeed(milli))
SpeedRaises(milli) == ~FitsU16(TargetSpeed(milli))

---------------------------------------------------------------------------
(* The command methods.  Each gives what one call does before it awaits   *)
(* _write_command: the value it leaves in stop_event, the command it       *)
(* builds, and whether building the command raises.                        *)

\* (mutant) start() without its stop_event.clear()
start_NoClear ==
    [flag |-> stop_event, command |-> StartCommand, raises |-> FALSE]

\* start(): self.stop_event.clear(), then the one-byte command
start ==
    [flag |-> FALSE, command |-> StartCommand, raises |-> FALSE]

\* (mutant) _pause() without its stop_event.set()
_pause_NoSet ==
    [flag |-> stop_event, command |-> PauseCommand, raises |-> FALSE]

\* _pause(): self.stop_event.set(), then [STOP_PAUSE_OP_CODE, PAUSE_HEX]
_pause ==
    [flag |-> TRUE, command |-> PauseCommand, raises |-> FALSE]

\* (mutant) stop() without its stop_event.set()
stop_NoSet ==
    [flag |-> stop_event, command |-> StopCommand, raises |-> FALSE]

\* stop(): self.stop_event.set(), then [STOP_PAUSE_OP_CODE, STOP_HEX]
stop ==
    [flag |-> TRUE, command |-> StopCommand, raises |-> FALSE]

\* set_speed(speed): the flag is not touched; to_bytes raises OverflowError
\* when int(speed * 100) is not in 0..65535, before anything is written
set_speed(milli) ==
    [flag |-> stop_event,
     command |-> IF SpeedRaises(milli) THEN <<>> ELSE SpeedCommand(milli),
     raises |-> SpeedRaises(milli)]

\* (mutant) _write_command without its try/except: a failed write raises
_write_command_NoCatch(ok) ==
    [raises |-> ~ok, ret |-> "None"]

\* _write_command: one write_gatt_char(..., response=True); ok is whether
\* the write was acknowledged.  `except Exception` catches a failure and
\* prints it: nothing is raised to the caller, and None is returned
_write_command(ok) ==
    [raises |-> FALSE, ret |-> "None"]

---------------------------------------------------------------------------
(* The workout log. *)

WriteEntry(command) == [kind |-> "write", command |-> command, secs |-> 0]
SleepEntry(secs) == [kind |-> "sleep", command |-> <<>>, secs |-> secs]

---------------------------------------------------------------------------
(* Inputs. *)

\* 2.00, 3.00 m/s; 700.00 m/s does not fit the 16-bit field
PlanSpeeds == {2000, 3000, 700000}
\* the shortest and the longest duration
Durations == {0, MaxDuration}
Interval == [speed : PlanSpeeds, duration : Durations]

RECURSIVE SeqsUpTo(_, _)
SeqsUpTo(S, n) ==
    IF n = 0 THEN {<<>>}
    ELSE LET shorter == SeqsUpTo(S, n - 1)
         IN  shorter \cup {Append(p, x) : p \in {q \in shorter : Len(q) = n - 1}, x \in S}

Plans == SeqsUpTo(Interval, MaxIntervals)

\* speeds other callers pass to set_speed
CallSpeeds == {3000, 700000}

---------------------------------------------------------------------------
(* State after __init__: asyncio.Event() is unset, nothing has run. *)

NoCall == [op |-> "", arg |-> 0, command |-> <<>>, ok |-> FALSE, ret |-> ""]

\* the polling variant after __init__: stop_event = asyncio.Event(), nothing
\* registered, subscribe() not called, the client connected
PollInit ==
    [stop_event |-> FALSE,   \* self.stop_event
     pc |-> "idle",          \* where subscribe() is suspended
     how |-> "",             \* how subscribe() left its try block
     registered |-> 0,       \* history: start_notify calls that returned
     stopped |-> 0,          \* history: stop_notify calls made
     checks |-> 0,           \* history: evaluations of the while condition
     sleeps |-> 0,           \* history: asyncio.sleep(1) calls awaited
     connected |-> TRUE,     \* what the client would report
     calls |-> 0,            \* start()/pause()/stop() calls made
     last |-> ""]            \* the last of them

Init ==
    /\ stop_event = FALSE
    /\ intervals = <<>>
    /\ wpc = "idle"
    /\ idx = 0
    /\ sleepLeft = 0
    /\ wlog = <<>>
    /\ failedAt = 0
    /\ cancelled = FALSE
    /\ stopInSleep = FALSE
    /\ calls = 0
    /\ last = NoCall
    /\ subscribed = FALSE
    /\ delivered = <<>>
    /\ telemetry_queue = <<>>
    /\ consumed = <<>>
    /\ poll = PollInit

Running == wpc \notin {"idle", "done", "raised"}
\* (mutant) set_speed's write not awaited: the interval's sleep runs while
\* the write is still out
Sleeping_NoAwait == wpc \in {"warmup", "sleep", "speed"}
Sleeping == wpc \in {"warmup", "sleep"}
Writing == wpc \in {"start", "speed", "pause"}

---------------------------------------------------------------------------
(* start_workout, called once. *)

\* await self.start(): the flag is cleared and the Start write is awaited
StartWorkout(plan) ==
    /\ wpc = "idle"
    /\ intervals' = plan
    /\ stop_event' = start.flag
    /\ wlog' = <<WriteEntry(start.command)>>
    /\ wpc' = "start"
    /\ idx' = 0
    /\ sleepLeft' = 0
    /\ failedAt' = 0
    /\ cancelled' = FALSE
    /\ stopInSleep' = FALSE
    /\ UNCHANGED <<poll, callerVars, telemetryVars>>

\* the seconds the workout suspends for after the write awaited at pc
SleepAfter(pc) ==
    IF pc = "start" THEN WarmUp ELSE intervals[idx].duration

\* the awaited write_gatt_char returns or raises; _write_command returns,
\* and the workout runs on to its next await: a sleep, or its return
WriteReturn(ok) ==
    /\ Writing
    /\ failedAt' = IF ~ok /\ failedAt = 0 THEN Len(wlog) ELSE failedAt
    /\ IF _write_command(ok).raises
       THEN /\ wpc' = "raised"
            /\ sleepLeft' = 0
       ELSE IF wpc = "pause"
       THEN /\ wpc' = "done"
            /\ sleepLeft' = 0
       ELSE /\ wpc' = IF wpc = "start" THEN "warmup" ELSE "sleep"
            /\ sleepLeft' = SleepAfter(wpc)
    /\ stopInSleep' = FALSE
    /\ UNCHANGED <<poll, stop_event, intervals, idx, wlog, cancelled,
                   callerVars, telemetryVars>>

\* one second of an asyncio.sleep passes
Tick ==
    /\ Sleeping
    /\ sleepLeft > 0
    /\ sleepLeft' = sleepLeft - 1
    /\ UNCHANGED <<poll, stop_event, intervals, wpc, idx, wlog, failedAt, historyVars,
                   callerVars, telemetryVars>>

\* whether an asyncio.sleep with this much time left returns
SleepReturns(left) == left = 0

\* (mutant) the loop without its `if self.stop_event.is_set(): break`
LoopEnds_NoBreak(k) == k > Len(intervals)

\* whether the for loop, about to take interval k, ends instead: the list
\* is exhausted, or `if self.stop_event.is_set(): break`
LoopEnds(k) == k > Len(intervals) \/ stop_event

\* the sleep returns and the workout runs to its next await: the loop's
\* next iteration (check, set_speed, its write) or, after the loop, _pause
Wake ==
    /\ Sleeping
    /\ SleepReturns(sleepLeft)
    /\ LET slept == IF wpc = "warmup" THEN WarmUp ELSE intervals[idx].duration
           log == Append(wlog, SleepEntry(slept - sleepLeft))
           k == idx + 1
       IN  IF LoopEnds(k)
           THEN /\ stop_event' = _pause.flag
                /\ wlog' = Append(log, WriteEntry(_pause.command))
                /\ wpc' = "pause"
                /\ idx' = idx
           ELSE IF set_speed(intervals[k].speed).raises
           THEN /\ wlog' = log
                /\ wpc' = "raised"
                /\ idx' = k
                /\ stop_event' = stop_event
           ELSE /\ stop_event' = set_speed(intervals[k].speed).flag
                /\ wlog' = Append(log, WriteEntry(set_speed(intervals[k].speed).command))
                /\ wpc' = "speed"
                /\ idx' = k
    /\ UNCHANGED <<poll, intervals, sleepLeft, failedAt, historyVars, callerVars,
                   telemetryVars>>

---------------------------------------------------------------------------
(* Command calls made by other callers (other tasks of the event loop).   *)
(* A call runs to its write without suspending; what the write's outcome  *)
(* is changes nothing but what _write_command prints.                      *)

Call(op, m, arg, ok) ==
    /\ calls < MaxCalls
    /\ calls' = calls + 1
    /\ stop_event' = m.flag
    /\ last' = [op |-> op, arg |-> arg, command |-> m.command,
                ok |-> ok /\ ~m.raises,
                ret |-> IF m.raises THEN "OverflowError"
                        ELSE _write_command(ok).ret]
    /\ cancelled' = (cancelled \/ (Running /\ op \in {"stop", "_pause"}))
    /\ stopInSleep' = (stopInSleep \/ (Sleeping /\ op \in {"stop", "_pause"}))
    /\ UNCHANGED <<poll, workoutVars, telemetryVars>>

CallStart == \E ok \in BOOLEAN : Call("start", start, 0, ok)
CallPause == \E ok \in BOOLEAN : Call("_pause", _pause, 0, ok)
CallStop == \E ok \in BOOLEAN : Call("stop", stop, 0, ok)
SetSpeedCalls(speeds) ==
    \E v \in speeds : \E ok \in BOOLEAN :
        /\ (set_speed(v).raises => ok)
        /\ Call("set_speed", set_speed(v), v, ok)
CallSetSpeed == SetSpeedCalls(CallSpeeds)

---------------------------------------------------------------------------
(* Telemetry: _notification_handler, subscribe, and a queue consumer. *)

Min(a, b) == IF a < b THEN a ELSE b

\* data[a:b] of a bytearray: the bytes at 0-based offsets a..b-1 that exist
Slice(data, a, b) == SubSeq(data, a + 1, Min(b, Len(data)))

\* int.from_bytes(bytes, "little"): unsigned; the empty string gives 0
RECURSIVE FromBytesLE(_)
FromBytesLE(bytes) ==
    IF bytes = <<>> THEN 0 ELSE Head(bytes) + 256 * FromBytesLE(Tail(bytes))

\* (mutant) the handler reading its two-byte fields big-endian
Metrics_BigEndian(data) ==
    [speed |-> <<256 * data[3] + data[4], 100>>,
     distance |-> FromBytesLE(Slice(data, 4, 11)),
     calories |-> 256 * data[12] + data[13],
     time |-> 256 * data[18] + data[19]]

\* the metrics dict the handler builds; speed is the quotient
\* int.from_bytes(data[2:4]) / 100, kept as numerator and denominator
Metrics(data) ==
    [speed |-> <<FromBytesLE(Slice(data, 2, 4)), 100>>,
     distance |-> FromBytesLE(Slice(data, 4, 11)),
     calories |-> FromBytesLE(Slice(data, 11, 13)),
     time |-> FromBytesLE(Slice(data, 17, 19))]

\* (mutant) the handler putting its sample at the head of the queue
_notification_handler_AtHead(queue, data) == <<Metrics(data)>> \o queue

\* _notification_handler: await self.telemetry_queue.put(metrics); put on
\* an unbounded asyncio.Queue does not suspend
_notification_handler(queue, data) == Append(queue, Metrics(data))

\* the frame of spec.md 8.5 (19 bytes), the unnamed bytes set to 0xFF
FixtureFrame ==
    <<255, 255, 44, 1, 10, 0, 0, 0, 0, 0, 0, 5, 0, 255, 255, 255, 255, 60, 0>>
\* a 20-byte frame: speed 2.50, distance 300, calories 7, time 258
OtherFrame ==
    <<0, 0, 250, 0, 44, 1, 0, 0, 0, 0, 0, 7, 0, 0, 0, 0, 0, 2, 1, 9>>

MinFrameLen == 19
WellFormed(frame) == Len(frame) >= MinFrameLen

\* frames cut short to these lengths are delivered too
ShortLens == {0, 18}
Frames ==
    {FixtureFrame, OtherFrame} \cup {SubSeq(FixtureFrame, 1, n) : n \in ShortLens}

\* subscribe(): start_notify registers the handler
Subscribe ==
    /\ ~subscribed
    /\ subscribed' = TRUE
    /\ UNCHANGED <<poll, stop_event, workoutVars, historyVars,
                   callerVars, delivered, telemetry_queue, consumed>>

\* the Notification Source delivers a frame to the registered handler
Notify(frame) ==
    /\ subscribed
    /\ Len(delivered) < MaxFrames
    /\ delivered' = Append(delivered, frame)
    /\ telemetry_queue' = _notification_handler(telemetry_queue, frame)
    /\ UNCHANGED <<poll, stop_event, workoutVars, historyVars,
                   callerVars, subscribed, consumed>>

\* a consumer's telemetry_queue.get()
Consume ==
    /\ telemetry_queue # <<>>
    /\ consumed' = Append(consumed, Head(telemetry_queue))
    /\ telemetry_queue' = Tail(telemetry_queue)
    /\ UNCHANGED <<poll, stop_event, workoutVars, historyVars,
                   callerVars, subscribed, delivered>>

---------------------------------------------------------------------------

(* The command side: one workout and the other callers' commands.  The    *)
(* telemetry side shares no variable with it.                              *)

Next ==
    \/ \E plan \in Plans : StartWorkout(plan)
    \/ \E ok \in BOOLEAN : WriteReturn(ok)
    \/ Tick
    \/ Wake
    \/ CallStart
    \/ CallPause
    \/ CallStop
    \/ CallSetSpeed

Spec == Init /\ [][Next]_vars

(* The whole controller: notifications arrive while commands are issued   *)
(* and a workout runs.                                                     *)

ShortPlans == {<<>>, <<[speed |-> 2000, duration |-> 0]>>}

NextTelemetry ==
    \/ \E plan \in ShortPlans : StartWorkout(plan)
    \/ \E ok \in BOOLEAN : WriteReturn(ok)
    \/ Tick
    \/ Wake
    \/ CallStart
    \/ CallPause
    \/ CallStop
    \/ CallSetSpeed
    \/ Subscribe
    \/ \E frame \in Frames : Notify(frame)
    \/ Consume

SpecTelemetry == Init /\ [][NextTelemetry]_vars

(* set_speed on its own, over a range of speeds. *)

\* 0.000 .. 0.120 m/s in thousandths, speeds around 3 m/s with two and with
\* three decimal places, the top of the 16-bit range, and speeds outside it
CodecSpeeds ==
    (0..MaxCodecSpeed)
      \cup {2990, 2995, 2999, 3000, 3005}
      \cup (655340..655360)
      \cup {700000, -1, -10}

NextCodec == SetSpeedCalls(CodecSpeeds)

SpecCodec == Init /\ [][NextCodec]_vars

(* A workout whose sleeps elapse and whose writes return, while other      *)
(* callers do nothing but request cancellation.  The event loop resumes a  *)
(* coroutine whose sleep or write has finished: weak fairness of the       *)
(* workout's own steps.                                                    *)

NextCancel ==
    \/ \E plan \in Plans : StartWorkout(plan)
    \/ \E ok \in BOOLEAN : WriteReturn(ok)
    \/ Tick
    \/ Wake
    \/ CallPause
    \/ CallStop

SpecCancel ==
    /\ Init
    /\ [][NextCancel]_vars
    /\ WF_vars(\E ok \in BOOLEAN : WriteReturn(ok))
    /\ WF_vars(Tick)
    /\ WF_vars(Wake)

(* The handler on its own, over frames that differ in every byte. *)

\* values tried at the byte with 0-based offset k.  The 7-byte distance is
\* kept below 2^31: offsets 8..10 stay 0 and offset 7 stays below 128
ByteValues(k) ==
    IF k \in 8..10 THEN {0}
    ELSE IF k = 7 THEN {0, 1, 127}
    ELSE {0, 1, 128, 255}

\* the two well-formed frames with any one byte replaced, and the fixture
\* frame with a byte appended
DecodeFrames ==
    {[f EXCEPT ![k + 1] = b] :
        <<f, k, b>> \in {<<f, k, b>> \in {FixtureFrame, OtherFrame}
                                        \X (0..19) \X {0, 1, 127, 128, 255} :
                            k < Len(f) /\ b \in ByteValues(k)}}
      \cup {Append(FixtureFrame, b) : b \in ByteValues(19)}

\* one delivery of one of these frames, and the consumer reading it
NextDecode ==
    \/ Subscribe
    \/ \E frame \in DecodeFrames : (delivered = <<>> /\ Notify(frame))
    \/ Consume

SpecDecode == Init /\ [][NextDecode]_vars

(* set_speed and the handler back to back: the bytes one call writes come
   back as bytes 2..3 of a 19-byte frame. *)

\* the largest value of the two-byte speed field
MaxWireSpeed == 65535

\* every speed from 0.00 to 655.35 in steps of 0.01, in thousandths
RoundTripSpeeds == {10 * n : n \in 0..MaxWireSpeed}

\* a 19-byte frame that carries a SetSpeed command's two bytes at [2, 4)
EchoFrame(command) ==
    [k \in 1..MinFrameLen |->
        IF k = 3 THEN command[2] ELSE IF k = 4 THEN command[3] ELSE 0]

SetSpeedOnce == calls = 0 /\ SetSpeedCalls(RoundTripSpeeds)

Echo ==
    /\ calls = 1
    /\ Len(last.command) = 3
    /\ delivered = <<>>
    /\ Notify(EchoFrame(last.command))

NextRoundTrip == Subscribe \/ SetSpeedOnce \/ Echo

SpecRoundTrip == Init /\ [][NextRoundTrip]_vars

(* Callers that do nothing but call _pause(), beside a workout. *)

NextPause ==
    \/ \E plan \in ShortPlans : StartWorkout(plan)
    \/ \E ok \in BOOLEAN : WriteReturn(ok)
    \/ Tick
    \/ Wake
    \/ CallPause

SpecPause == Init /\ [][NextPause]_vars

(* The polling variant, src/treadmill/controller.py: subscribe() and the
   calls that run beside it. *)

MaxSleeps == 2

\* (mutant) subscribe() with stop_notify after the loop instead of in a
\* finally: an exception or a cancellation leaves without it
Finally_NoTry(p, how) ==
    IF how = "normal"
    THEN [p EXCEPT !.pc = "stop_notify", !.how = how, !.stopped = @ + 1]
    ELSE [p EXCEPT !.pc = how, !.how = how]

\* finally: await self.client.stop_notify(self.data_point_uuid), entered
\* however the try block is left
Finally(p, how) ==
    [p EXCEPT !.pc = "stop_notify", !.how = how, !.stopped = @ + 1]

\* while not self.stop_event.is_set() and await self.client.is_connected():
\* the flag is read first; only when it is clear is the client asked
LoopCheck(p) ==
    IF p.stop_event
    THEN Finally([p EXCEPT !.checks = @ + 1], "normal")
    ELSE [p EXCEPT !.pc = "is_connected", !.checks = @ + 1]

PollUnchanged ==
    UNCHANGED <<stop_event, workoutVars, historyVars, callerVars, telemetryVars>>

\* subscribe() is called and awaits start_notify
PollSubscribe ==
    /\ poll.pc = "idle"
    /\ poll' = [poll EXCEPT !.pc = "start_notify"]
    /\ PollUnchanged

\* start_notify returns, the handler registered, or raises before the try
PollStartNotify(ok) ==
    /\ poll.pc = "start_notify"
    /\ poll' = IF ok
               THEN LoopCheck([poll EXCEPT !.registered = @ + 1])
               ELSE [poll EXCEPT !.pc = "raised", !.how = "raised"]
    /\ PollUnchanged

\* is_connected() returns what the client reports, or raises
PollIsConnected(raises) ==
    /\ poll.pc = "is_connected"
    /\ poll' = IF raises THEN Finally(poll, "raised")
               ELSE IF ~poll.connected THEN Finally(poll, "normal")
               ELSE [poll EXCEPT !.pc = "sleep", !.sleeps = @ + 1]
    /\ (~raises /\ poll.connected) => poll.sleeps < MaxSleeps
    /\ PollUnchanged

\* asyncio.sleep(1) returns and the while condition is evaluated again
PollSleep ==
    /\ poll.pc = "sleep"
    /\ poll' = LoopCheck(poll)
    /\ PollUnchanged

\* the task running subscribe() is cancelled at one of the awaits in the try
PollCancel ==
    /\ poll.pc \in {"is_connected", "sleep"}
    /\ poll' = Finally(poll, "cancelled")
    /\ PollUnchanged

\* stop_notify returns or raises, and subscribe() is left
PollStopNotify(ok) ==
    /\ poll.pc = "stop_notify"
    /\ poll' = [poll EXCEPT !.pc = IF poll.how = "normal"
                                   THEN (IF ok THEN "returned" ELSE "raised")
                                   ELSE poll.how]
    /\ PollUnchanged

\* the connection drops
PollDisconnect ==
    /\ poll.connected
    /\ poll' = [poll EXCEPT !.connected = FALSE]
    /\ PollUnchanged

\* start(), pause(): the flag is not touched; stop(): self.stop_event.set().
\* Their self._write_command(command) is not awaited: the coroutine object
\* is dropped and nothing is written
PollFlagAfter(op, flag) == flag \/ op = "stop"

PollCall(op) ==
    /\ poll.calls < MaxCalls
    /\ poll' = [poll EXCEPT !.calls = @ + 1, !.last = op,
                            !.stop_event = PollFlagAfter(op, @)]
    /\ PollUnchanged

NextPolling ==
    \/ PollSubscribe
    \/ \E ok \in BOOLEAN : PollStartNotify(ok)
    \/ \E raises \in BOOLEAN : PollIsConnected(raises)
    \/ PollSleep
    \/ PollCancel
    \/ \E ok \in BOOLEAN : PollStopNotify(ok)
    \/ PollDisconnect
    \/ \E op \in {"start", "pause", "stop"} : PollCall(op)

SpecPolling == Init /\ [][NextPolling]_vars

---------------------------------------------------------------------------
(* What spec.md says of the wire format, for stating the claims. *)

\* round(v * 100) for v given in thousandths: to nearest, a tie to even
RoundScaled(milli) ==
    LET q == milli \div 10
        r == milli % 10
    IN  IF r < 5 THEN q
        ELSE IF r > 5 THEN q + 1
        ELSE IF q % 2 = 0 THEN q ELSE q + 1

\* 02 <u16 little-endian of round(v*100)>
WireSetSpeed(milli) ==
    <<2, RoundScaled(milli) % 256, RoundScaled(milli) \div 256>>
WireStart == <<7>>
WirePause == <<8, 2>>
WireStop == <<8, 1>>

\* every speed of the plan fits the 16-bit wire field
PlanFits(plan) ==
    \A i \in DOMAIN plan : RoundScaled(plan[i].speed) \in 0..65535

\* Start, the warm-up, then SetSpeed and a wait for each of the first n
\* intervals
RECURSIVE LogThrough(_, _)
LogThrough(plan, n) ==
    IF n = 0
    THEN <<WriteEntry(WireStart), SleepEntry(5)>>
    ELSE LogThrough(plan, n - 1)
         \o <<WriteEntry(WireSetSpeed(plan[n].speed)), SleepEntry(plan[n].duration)>>

\* the whole run of an uncancelled workout
ExpectedLog(plan) == LogThrough(plan, Len(plan)) \o <<WriteEntry(WirePause)>>

IsPrefix(s, t) == Len(s) <= Len(t) /\ s = SubSeq(t, 1, Len(s))

Writes(log) == SelectSeq(log, LAMBDA e : e.kind = "write")
SpeedWrites(log) ==
    SelectSeq(log, LAMBDA e : e.kind = "write" /\ Len(e.command) = 3)

---------------------------------------------------------------------------
(* C1: a workout that no stop()/_pause() call interrupts sends, for every  *)
(* plan whose speeds can be encoded (empty plans and zero durations        *)
(* included) and whatever the flag was when it was called, exactly Start,  *)
(* the 5 s warm-up, then for each interval in plan order SetSpeed and a    *)
(* wait of its duration, then Pause: at every moment its log is a prefix   *)
(* of that sequence, and on return it is the whole of it.                  *)
C1_ExactSequence ==
    (wpc # "idle" /\ ~cancelled /\ PlanFits(intervals)) =>
        /\ wpc # "raised"
        /\ IsPrefix(wlog, ExpectedLog(intervals))
        /\ (wpc = "done" => wlog = ExpectedLog(intervals))

\* an uninterrupted two-interval workout with different speeds and a zero
\* duration has returned
C1_Witness ==
    /\ wpc = "done"
    /\ ~cancelled
    /\ Len(intervals) = 2
    /\ intervals[1].speed = 2000 /\ intervals[2].speed = 3000
    /\ intervals[1].duration = 0 /\ intervals[2].duration > 0
    /\ Len(wlog) = 7

(* C2: when a stop()/_pause() call sets the flag while the workout is in   *)
(* the warm-up or in the wait of interval k (idx = k) and the flag is      *)
(* still set when the sleep returns and the loop checks it, the workout    *)
(* sends no SetSpeed for interval k+1: the next command it sends is Pause, *)
(* and after Pause it sends nothing more.                                  *)
C2_CancelSkipsRest ==
    [][ /\ (Sleeping /\ stopInSleep /\ stop_event /\ wpc' # wpc) =>
              /\ wpc' = "pause"
              /\ idx' = idx
              /\ Writes(wlog') = Append(Writes(wlog), WriteEntry(WirePause))
        /\ (wpc \in {"pause", "done"} =>
              /\ wpc' \in {"pause", "done"}
              /\ wlog' = wlog) ]_vars

\* the loop was left after interval 1 of 2 because of a stop during its wait
C2_Witness ==
    /\ wpc = "pause"
    /\ stopInSleep
    /\ idx = 1
    /\ Len(intervals) = 2
    /\ Len(SpeedWrites(wlog)) = 1

(* C3: with sleeps that elapse and writes that return, under every         *)
(* interleaving of stop()/_pause() calls and write failures, a workout on  *)
(* a plan whose speeds fit the 16-bit field returns; when it has returned, *)
(* the last command it sent is Pause (08 02), it sent Pause once, and the  *)
(* flag is set.                                                            *)
C3_TerminatesWithPause ==
    /\ [](wpc = "done" =>
            /\ wlog[Len(wlog)] = WriteEntry(WirePause)
            /\ Len(SelectSeq(wlog, LAMBDA e : e = WriteEntry(WirePause))) = 1
            /\ stop_event)
    /\ ((Running /\ PlanFits(intervals)) ~> (wpc = "done"))

\* a two-interval workout has returned after a failed write and a stop()
C3_Witness ==
    /\ wpc = "done"
    /\ Len(intervals) = 2
    /\ failedAt > 0
    /\ cancelled
    /\ last.op = "stop"

(* C4: the warm-up and every interval's wait are preemptible: once a      *)
(* stop() has set the flag during such a wait, the workout leaves the wait *)
(* within one polling period (1 s).  Stated on the second that passes with *)
(* the flag set: when it has passed, the wait has no time left to run.     *)
C4_WaitPreemptible ==
    [][(Sleeping /\ stopInSleep /\ stop_event /\ sleepLeft' < sleepLeft)
          => sleepLeft' = 0]_vars

(* C5: the flag is false on construction; _pause and stop() leave it true; *)
(* only start() (called directly, or as the first step of start_workout)   *)
(* changes it from true to false; set_speed, subscribe and the             *)
(* notification handler leave it as it is.                                 *)
C5_FlagLifecycle ==
    /\ ~stop_event
    /\ [][ /\ (calls' # calls /\ last'.op \in {"_pause", "stop"}) => stop_event'
           /\ (wpc' = "pause" /\ wpc # "pause") => stop_event'
           /\ (stop_event /\ ~stop_event') =>
                 \/ (calls' # calls /\ last'.op = "start")
                 \/ (wpc = "idle" /\ wpc' = "start")
           /\ (calls' # calls /\ last'.op = "set_speed") => stop_event' = stop_event
           /\ (wpc' \in {"speed", "raised"} /\ wpc' # wpc) => stop_event' = stop_event
           /\ (subscribed' # subscribed \/ delivered' # delivered)
                 => stop_event' = stop_event ]_vars

\* start_workout has just cleared a flag that a stop() had set before it,
\* and a notification has been handled
C5_Witness ==
    /\ wpc = "start"
    /\ ~cancelled
    /\ last.op = "stop"
    /\ ~stop_event
    /\ Len(delivered) > 0

(* C6: when a Command Sink write fails, the flag keeps the value it had    *)
(* before the operation began, unless the operation was _pause or stop():  *)
(* a start() whose write fails while the flag is set leaves it set, and a  *)
(* failing set_speed leaves it unchanged.                                  *)
C6_FailedWriteKeepsFlag ==
    [][(calls' # calls /\ ~last'.ok /\ last'.op \notin {"_pause", "stop"})
          => stop_event' = stop_event]_vars

\* the log of a workout that has reached interval n and position pc
LogAt(plan, n, pc) ==
    IF pc \in {"pause", "done"}
    THEN LogThrough(plan, n) \o <<WriteEntry(WirePause)>>
    ELSE SubSeq(LogThrough(plan, n), 1, Len(LogThrough(plan, n)) - 1)

(* C7: a failed write of the workout is not fatal and is not retried.      *)
(* After a write of a workout (on a plan whose speeds can be encoded) has  *)
(* failed, the workout has not aborted; its log holds one write per        *)
(* command issued so far (Start, one SetSpeed for each interval reached,   *)
(* Pause once the loop is over), each interval's write followed by the     *)
(* wait of that interval's duration; and if no stop()/_pause() interrupted *)
(* it, it returns only after every interval's SetSpeed and the Pause.      *)
C7_FailedWriteNotFatal ==
    (failedAt > 0 /\ PlanFits(intervals)) =>
        /\ wpc # "raised"
        /\ wlog[failedAt].kind = "write"
        /\ wlog = LogAt(intervals, idx, wpc)
        /\ (wpc = "done" /\ ~cancelled => idx = Len(intervals))

\* the SetSpeed write of interval 1 failed (place 3 of the log), and the
\* workout went on through interval 2 to its return
C7_Witness ==
    /\ failedAt = 3
    /\ wpc = "done"
    /\ ~cancelled
    /\ Len(intervals) = 2
    /\ intervals[1].duration > 0
    /\ Len(wlog) = 7

(* C8: for every speed v whose scaled value round(v*100) lies in 0..65535, *)
(* speeds with more than two decimal places included, set_speed(v) writes  *)
(* the 3 bytes 02 lo hi with lo + 256*hi = round(v*100).                   *)
C8_SetSpeedWire ==
    (last.op = "set_speed" /\ RoundScaled(last.arg) \in 0..65535) =>
        /\ last.command = WireSetSpeed(last.arg)
        /\ Len(last.command) = 3
        /\ last.command[2] + 256 * last.command[3] = RoundScaled(last.arg)

(* C9: a notification frame of 0..18 bytes is dropped (no sample is put on *)
(* the Telemetry Channel for it), and later well-formed frames are still   *)
(* decoded and enqueued: the samples put on the queue so far are as many   *)
(* as the well-formed frames delivered so far.                             *)
C9_ShortFrameDropped ==
    Len(consumed) + Len(telemetry_queue) =
        Cardinality({i \in DOMAIN delivered : WellFormed(delivered[i])})

(* C10: when the frames delivered are well-formed, whatever commands and   *)
(* workout steps come between them, the samples taken by the consumer      *)
(* followed by those still queued are the decoded frames, one per frame,   *)
(* in arrival order.                                                       *)
C10_InOrderExactlyOnce ==
    (\A i \in DOMAIN delivered : WellFormed(delivered[i])) =>
        consumed \o telemetry_queue =
            [i \in 1..Len(delivered) |-> Metrics(delivered[i])]

\* two different well-formed frames arrived during a workout and between
\* commands; the consumer has taken the first sample, the second is queued
C10_Witness ==
    /\ delivered = <<FixtureFrame, OtherFrame>>
    /\ Len(consumed) = 1
    /\ Len(telemetry_queue) = 1
    /\ Running
    /\ calls > 0

\* the sample decoded from the only frame delivered, wherever it is now
DecodedSample == (consumed \o telemetry_queue)[1]

\* C11, for every delivered frame of at least 19 bytes the decoded sample has
\* speed = (byte 2 + 256 * byte 3) / 100, distance = the little-endian value
\* of bytes 4..10, calories = byte 11 + 256 * byte 12 and time = byte 17 +
\* 256 * byte 18, whatever bytes 0, 1, 13..16 and those beyond 18 hold; the
\* fixture frame decodes to speed 3.00, distance 10, calories 5, time 60
C11_FixedOffsets ==
    (Len(delivered) = 1 /\ WellFormed(delivered[1])) =>
        LET data == delivered[1]
            byte(k) == data[k + 1]
        IN  /\ Len(consumed \o telemetry_queue) = 1
            /\ DecodedSample.speed = <<byte(2) + 256 * byte(3), 100>>
            /\ DecodedSample.distance =
                  byte(4) + 256 * byte(5) + 65536 * byte(6)
                    + 16777216 * byte(7)
                    + 256 * (16777216 * (byte(8) + 256 * byte(9)
                                           + 65536 * byte(10)))
            /\ DecodedSample.calories = byte(11) + 256 * byte(12)
            /\ DecodedSample.time = byte(17) + 256 * byte(18)
            /\ (\A k \in 2..12 \cup 17..18 : byte(k) = FixtureFrame[k + 1]) =>
                  DecodedSample = [speed |-> <<300, 100>>, distance |-> 10,
                                   calories |-> 5, time |-> 60]

\* a frame that differs from the fixture in the unnamed byte 14 only has been
\* decoded to the fixture's values
C11_Witness ==
    /\ Len(delivered) = 1
    /\ delivered[1] = [FixtureFrame EXCEPT ![15] = 0]
    /\ consumed = <<[speed |-> <<300, 100>>, distance |-> 10,
                     calories |-> 5, time |-> 60]>>

IsWireSetSpeed(command) ==
    /\ Len(command) = 3
    /\ command[1] = 2
    /\ command[2] \in 0..255 /\ command[3] \in 0..255

WireCommand(command) ==
    command \in {WireStart, WirePause, WireStop} \/ IsWireSetSpeed(command)

CountOf(log, command) ==
    Len(SelectSeq(log, LAMBDA e : e = WriteEntry(command)))

\* C13, in every reachable state the byte sequence a start(), _pause() or
\* stop() call handed to the Command Sink is the one fixed literal of that
\* operation (07 / 08 02 / 08 01), the workout's own start and pause have
\* each written theirs once, and every sequence written by a caller's call
\* or by the workout is one of the three literals or a 3-byte 02 lo hi
C13_FixedLiterals ==
    /\ last.op = "start" => last.command = WireStart
    /\ last.op = "_pause" => last.command = WirePause
    /\ last.op = "stop" => last.command = WireStop
    /\ last.command # <<>> => WireCommand(last.command)
    /\ \A i \in DOMAIN wlog :
          wlog[i].kind = "write" => WireCommand(wlog[i].command)
    /\ wpc # "idle" =>
          /\ wlog[1] = WriteEntry(WireStart)
          /\ CountOf(wlog, WireStart) = 1
          /\ CountOf(wlog, WirePause) = IF wpc \in {"pause", "done"} THEN 1 ELSE 0
          /\ CountOf(wlog, WireStop) = 0

\* a workout has written Start, a SetSpeed and Pause, and a caller's stop()
\* has written its literal
C13_Witness ==
    /\ wpc = "done"
    /\ Len(SpeedWrites(wlog)) = 1
    /\ last.op = "stop"
    /\ last.command = <<8, 1>>

\* C14, every _pause() call hands 08 02 to the Command Sink and leaves the
\* flag set, whether its write succeeds or fails and whatever the flag and
\* the workout's position were before; a _pause() that follows a _pause()
\* hands over the same bytes as the first
C14_PauseIdempotent ==
    [][(calls' # calls /\ last'.op = "_pause") =>
          /\ last'.command = WirePause
          /\ stop_event'
          /\ (last.op = "_pause" => last'.command = last.command)]_vars

\* _pause() has been called twice, the second time with a failing write,
\* while a workout that had cleared the flag was in its warm-up
C14_Witness ==
    /\ calls = 2
    /\ last.op = "_pause"
    /\ ~last.ok
    /\ wpc = "warmup"
    /\ stop_event

\* C15, a call whose Command Sink write failed returns to its caller
\* something other than what a call whose write succeeded returns (None)
C15_FailureSurfaced ==
    (last.op \in {"start", "_pause", "stop", "set_speed"}
        /\ last.command # <<>> /\ ~last.ok)
      => last.ret # "None"

\* C16, a speed whose scaled value does not fit the 16-bit field has no
\* bytes written for it, by a caller's set_speed or by the workout, and the
\* workout is not ended by it: start_workout never leaves by an exception
\* and, once it has returned, its last write is Pause
C16_OutOfRangeLocal ==
    /\ (last.op = "set_speed" /\ RoundScaled(last.arg) \notin 0..65535)
          => last.command = <<>>
    /\ Len(SpeedWrites(wlog))
          <= Cardinality({i \in 1..idx : RoundScaled(intervals[i].speed) \in 0..65535})
    /\ wpc # "raised"

\* C17 as stated, once a stop()/_pause() call has set the flag during the
\* warm-up or an interval's wait, the workout's next loop check ends the
\* loop and no further SetSpeed is sent, whatever start(), stop() and
\* _pause() calls other callers make between the setting and the check
C17_NeverLost ==
    [][(Sleeping /\ stopInSleep /\ wpc' # wpc) =>
          /\ wpc' = "pause"
          /\ SpeedWrites(wlog') = SpeedWrites(wlog)]_vars

\* C17 amended, a flag set during the warm-up or an interval's wait ends the
\* loop at the next check when it is still set then, under every interleaving
\* of stop() and _pause() calls; the workout goes on to another SetSpeed after
\* such a setting only when the flag is clear at the check, which takes a
\* start() called by another caller after the cancelling call
C17_LostOnlyToStart ==
    [][(Sleeping /\ stopInSleep /\ wpc' # wpc) =>
          IF stop_event
          THEN /\ wpc' = "pause"
               /\ SpeedWrites(wlog') = SpeedWrites(wlog)
          ELSE /\ calls >= 2
               /\ last.op \in {"start", "set_speed"}]_vars

\* a stop() in the warm-up was followed by another caller's start(), and the
\* workout has gone on to the first interval's SetSpeed
C17_Witness ==
    /\ wpc = "speed"
    /\ idx = 1
    /\ stopInSleep
    /\ ~stop_event
    /\ calls = 2
    /\ last.op = "start"

\* C18, while a write of the workout is out (Start, a SetSpeed or Pause),
\* the workout's position, interval, log and sleep change only by that
\* write returning, acknowledged or failed, which takes it to the warm-up,
\* the interval's wait or the return; nothing is written or slept before
\* that, and a write is begun only when none is out, one at a time
C18_Sequential ==
    [][ /\ (Writing /\ <<wpc, idx, sleepLeft, wlog>>' # <<wpc, idx, sleepLeft, wlog>>)
            => /\ wlog' = wlog
               /\ idx' = idx
               /\ wpc = "start" => wpc' = "warmup" /\ sleepLeft' = 5
               /\ wpc = "speed" => wpc' = "sleep" /\ sleepLeft' = intervals[idx].duration
               /\ wpc = "pause" => wpc' = "done"
        /\ Len(Writes(wlog')) > Len(Writes(wlog))
            => /\ ~Writing
               /\ Len(Writes(wlog')) = Len(Writes(wlog)) + 1
               /\ wlog'[Len(wlog')].kind = "write"
               /\ wpc' \in {"start", "speed", "pause"} ]_vars

\* the second interval's SetSpeed is out after an earlier write failed,
\* while other callers have made their calls
C18_Witness ==
    /\ wpc = "speed"
    /\ idx = 2
    /\ failedAt > 0
    /\ calls = 2

\* subscribe() of the polling variant has got past start_notify
PollRegistered == poll.registered = 1

\* C19, in the polling variant subscribe() registers the handler once and
\* evaluates its loop condition once after registering and once after each
\* one-second sleep; a check made with the flag set, or answered
\* "disconnected" by the client, ends the loop, and the loop ends normally
\* for no other reason; once the handler is registered, stop_notify has been
\* called exactly once however the loop was left (normally, by cancellation
\* or by an error from is_connected) and not at all before; stop() sets the
\* flag, pause() and start() leave it as it is
C19_PollingSubscribe ==
    /\ [](/\ poll.registered <= 1
          /\ poll.pc \in {"is_connected", "sleep", "stop_notify",
                          "returned", "cancelled"} => PollRegistered
          /\ poll.pc = "is_connected" => poll.checks = poll.sleeps + 1
          /\ poll.pc = "sleep" => poll.checks = poll.sleeps
          /\ PollRegistered => poll.checks \in {poll.sleeps, poll.sleeps + 1}
          /\ poll.stopped =
                IF PollRegistered
                   /\ poll.pc \in {"stop_notify", "returned", "raised", "cancelled"}
                THEN 1 ELSE 0)
    /\ [][ /\ (poll.pc = "sleep" /\ poll.stop_event /\ poll'.pc # poll.pc)
                => poll'.pc = "stop_notify"
           /\ (poll.pc = "is_connected" /\ ~poll.connected /\ poll'.pc # poll.pc)
                => poll'.pc = "stop_notify"
           /\ (poll'.pc = "stop_notify" /\ poll.pc # "stop_notify"
                 /\ poll'.how = "normal")
                => (poll.stop_event \/ ~poll.connected)
           /\ poll'.calls # poll.calls
                => poll'.stop_event = (poll.stop_event \/ poll'.last = "stop")
           /\ poll'.stop_event # poll.stop_event
                => (poll'.calls # poll.calls /\ poll'.last = "stop") ]_vars

\* after a pause() that left the flag clear and two sleeps, the task was
\* cancelled and subscribe() has left with one stop_notify
C19_Witness ==
    /\ poll.pc = "cancelled"
    /\ poll.sleeps = 2
    /\ poll.stopped = 1
    /\ poll.last = "pause"
    /\ ~poll.stop_event

=============================================================================
